---- MODULE Spec2Model ----
(***************************************************************************)
(* The OPEX/CAPEX requisition approval workflow of hr_app.py.              *)
(*                                                                         *)
(* The persisted store is one JSON file holding the list of requisitions.  *)
(* Every page run of a browser session loads the whole file into a local   *)
(* list, mutates that list and writes the whole list back.  Streamlit runs *)
(* each session's script on its own thread, so the load and the save of    *)
(* two sessions interleave; a page run is therefore two steps here: the    *)
(* load (with the local computation up to the save) and the save.          *)
(***************************************************************************)
EXTENDS Integers, Sequences, FiniteSets

(* ---------------------------------------------------------------------- *)
(* Bounds of the model                                                     *)
(* ---------------------------------------------------------------------- *)
\* number of requisitions ever submitted (uuid4 values ever drawn)
MaxRequests == 1
\* the same, in the specification of two requisitions side by side
MaxPairRequests == 2
\* number of Update User saves of the administrator
MaxUserUpdates == 1
\* number of requisitions in the specification of the requisition page alone
MaxSubmitRequests == 2

Sessions == {"s1", "s2"}

\* Python's None as the value of a string-valued expression
None == "None"

\* st.session_state.current_user of a session nobody is logged in to
NoUser == [username |-> None, staff_id |-> None, name |-> None, role |-> None, department |-> None, grade_level |-> None]

(* ---------------------------------------------------------------------- *)
(* Configuration: the approval chain and the initial user directory        *)
(* ---------------------------------------------------------------------- *)
APPROVAL_CHAIN ==
    << [role_name |-> "Admin Manager",   department |-> "Administration", grade_level |-> "Manager"],
       [role_name |-> "HR Manager",      department |-> "HR",             grade_level |-> "Manager"],
       [role_name |-> "Finance Manager", department |-> "Finance",        grade_level |-> "Manager"],
       [role_name |-> "MD",              department |-> "Executive",      grade_level |-> "MD"] >>

\* the users of the initial directory, in the order of the list
UserOrder == << "abdul_bolaji@yahoo.com", "ada_ama", "udu_aka", "abdulahi_ibrahim", "addidas_puma" >>

Usernames == { UserOrder[i] : i \in 1 .. Len(UserOrder) }

initial_users ==
    [u \in Usernames |->
        CASE u = "abdul_bolaji@yahoo.com"     -> [username |-> u, staff_id |-> "ADM/2024/000", name |-> "Abdul Bolaji (Admin)", role |-> "admin", department |-> "Executive",      grade_level |-> "MD"]
          [] u = "ada_ama"          -> [username |-> u, staff_id |-> "POL/2024/001", name |-> "Ada Ama", role |-> "staff", department |-> "Marketing",      grade_level |-> "Officer"]
          [] u = "udu_aka"          -> [username |-> u, staff_id |-> "POL/2024/002", name |-> "Udu Aka", role |-> "staff", department |-> "Finance",        grade_level |-> "Manager"]
          [] u = "abdulahi_ibrahim" -> [username |-> u, staff_id |-> "POL/2024/003", name |-> "Abdulahi Ibrahim", role |-> "staff", department |-> "Administration", grade_level |-> "Manager"]
          [] u = "addidas_puma"     -> [username |-> u, staff_id |-> "POL/2024/004", name |-> "Addidas Puma", role |-> "staff", department |-> "HR",             grade_level |-> "Manager"]]

\* budgeted amount of every expense line, in naira
EXPENSE_LINES_BUDGET ==
    [line \in { "Office Repairs and Maintenance", "Equipment Maintenance", "Regulatory Maintenance",
                "Electricity", "Cleaning & Pest Control", "Fleet Management", "Subscriptions",
                "Rent", "Fuel and Lubrication", "Plant & Machinery Maintenance",
                "Printing & Stationeries", "Insurance", "Internet Subscription",
                "IT Equipment Maintenance" } |->
        CASE line = "Office Repairs and Maintenance" -> 1000000
          [] line = "Equipment Maintenance"          -> 500000
          [] line = "Regulatory Maintenance"         -> 750000
          [] line = "Electricity"                    -> 6000000
          [] line = "Cleaning & Pest Control"        -> 2500000
          [] line = "Fleet Management"               -> 5000000
          [] line = "Subscriptions"                  -> 1000000
          [] line = "Rent"                           -> 2500000
          [] line = "Fuel and Lubrication"           -> 4500000
          [] line = "Plant & Machinery Maintenance"  -> 450000
          [] line = "Printing & Stationeries"        -> 1200000
          [] line = "Insurance"                      -> 7500000
          [] line = "Internet Subscription"          -> 2500000
          [] line = "IT Equipment Maintenance"       -> 5000000]

\* the withholding tax rate 0.05, in hundredths
wht_percentage == 5

(* ---------------------------------------------------------------------- *)
(* The values of the requisition form.  Costs are whole naira, multiples   *)
(* of 20, for which the float products with 0.05 are exact.  A text input  *)
(* left empty is the empty string.                                         *)
(* ---------------------------------------------------------------------- *)
Form(line, material, labor, vendor, account_name, account_no, bank) ==
    [expense_line |-> line, material_cost |-> material, labor_cost |-> labor,
     vendor_name |-> vendor, vendor_account_name |-> account_name,
     vendor_account_no |-> account_no, vendor_bank |-> bank]

\* a requisition of materials and labour within the budget of its line
RoutineForm ==
    Form("Equipment Maintenance", 100000, 50000, "Acme Ltd", "Acme Ltd", "0123456789", "First Bank")

\* the form of the specifications that follow one requisition through the chain
RoutineForms == { RoutineForm }

\* the user who submits in those specifications
RoutineRequesters == { "ada_ama" }

\* a requisition whose amounts exceed the budget of its line
OverBudgetForm ==
    Form("Plant & Machinery Maintenance", 400000, 200000, "Acme Ltd", "Acme Ltd", "0123456789", "First Bank")

\* the form of the specification that follows an over-budget requisition
OverBudgetForms == { OverBudgetForm }

\* the forms of the specification of the submission: also materials only, a
\* total above the budget of the line, and vendor fields left empty
Forms ==
    { RoutineForm,
      Form("Equipment Maintenance", 100000, 0, "Acme Ltd", "Acme Ltd", "0123456789", "First Bank"),
      OverBudgetForm,
      Form("Equipment Maintenance", 100000, 50000, "", "Acme Ltd", "0123456789", "First Bank"),
      Form("Equipment Maintenance", 100000, 50000, "Acme Ltd", "", "", "") }

\* the value of form while no requisition page is running
NoForm == Form(None, 0, 0, None, None, None, None)

(* ---------------------------------------------------------------------- *)
(* State                                                                   *)
(* ---------------------------------------------------------------------- *)
VARIABLES
    requests_file,          \* opex_capex_requests.json as load_data reads it: a sequence of requisitions
    users_file,             \* contents of users.json: username -> user record
    uuids,                  \* how many request ids uuid4 has produced so far
    user_updates,           \* how many Update User saves have been made so far
    current_user,           \* st.session_state.current_user of each session (None: logged out)
    pc,                     \* where each session's page run stands
    opex_capex_requests,    \* the list a running page loaded from the requests file
    users,                  \* the directory a running requisition page loaded from the users file
    form,                   \* the form values a running requisition page was submitted with
    request_to_review_id,   \* the selectbox value of a running approvals page
    button,                 \* the button whose press started the running approvals page
    message                 \* the error or notice the session's page shows after its last run

vars == << requests_file, users_file, uuids, user_updates, current_user, pc,
           opex_capex_requests, users, form, request_to_review_id, button, message >>

\* the request ids of the largest specification
RequestIds ==
    1 .. (IF MaxPairRequests >= MaxSubmitRequests THEN MaxPairRequests ELSE MaxSubmitRequests)

\* the value of users while no requisition page is running: no directory loaded
NoUsers == << >>

\* the (department, grade_level) values the administrator types into the edit form
EditedPositions == { [department |-> "Marketing", grade_level |-> "Officer"] }

(* ---------------------------------------------------------------------- *)
(* Helpers of the approvals page                                           *)
(* ---------------------------------------------------------------------- *)
\* indices of the chain entries with the user's department and grade level
MatchingStages(profile) ==
    { i \in 1 .. Len(APPROVAL_CHAIN) :
        /\ APPROVAL_CHAIN[i].department = profile.department
        /\ APPROVAL_CHAIN[i].grade_level = profile.grade_level }

Min(S) == CHOOSE x \in S : \A y \in S : x <= y

\* the for loop with break: role name of the first matching chain entry, or None
current_approver_role_in_chain(profile) ==
    IF MatchingStages(profile) = {} THEN None
    ELSE APPROVAL_CHAIN[Min(MatchingStages(profile))].role_name

is_approver(profile) == MatchingStages(profile) # {}

\* the filter without the comparison of current_approver_role
IsPendingFor_AnyRole(req, role) ==
    req.final_status = "Pending"

IsPendingFor(req, role) ==
    /\ req.current_approver_role = role
    /\ req.final_status = "Pending"

\* the list comprehension over the loaded list
pending_for_this_approver(reqs, role) ==
    SelectSeq(reqs, LAMBDA req : IsPendingFor(req, role))

\* position in the loaded list of the request next(...) picks, 0 when there is none
SelectedIndex(reqs, role, rid) ==
    LET hits == { i \in 1 .. Len(reqs) : IsPendingFor(reqs[i], role) /\ reqs[i].request_id = rid }
    IN  IF hits = {} THEN 0 ELSE Min(hits)

(* ---------------------------------------------------------------------- *)
(* The two decisions, applied to the selected request of the loaded list   *)
(* ---------------------------------------------------------------------- *)
HistoryEntry(role, name, status) ==
    [approver_role |-> role, approver_name |-> name, status |-> status]

\* chain entry of a 0-based stage index
StageAt(k) == APPROVAL_CHAIN[k + 1]

\* the Approve button without the assignment to current_approval_stage
ApproveRequest_NoAdvance(req, role, name) ==
    LET hist == Append(req.approval_history, HistoryEntry(role, name, "Approved"))
        next_stage_index == req.current_approval_stage + 1
    IN  IF next_stage_index < Len(APPROVAL_CHAIN)
        THEN [req EXCEPT !.approval_history = hist,
                         !.current_approver_role = StageAt(next_stage_index).role_name]
        ELSE [req EXCEPT !.approval_history = hist,
                         !.final_status = "Approved",
                         !.current_approver_role = "Final Approval"]

\* the Approve button assigning the next stage index also at the final approval
ApproveRequest_AdvancesPastEnd(req, role, name) ==
    LET hist == Append(req.approval_history, HistoryEntry(role, name, "Approved"))
        next_stage_index == req.current_approval_stage + 1
    IN  IF next_stage_index < Len(APPROVAL_CHAIN)
        THEN [req EXCEPT !.approval_history = hist,
                         !.current_approver_role = StageAt(next_stage_index).role_name,
                         !.current_approval_stage = next_stage_index]
        ELSE [req EXCEPT !.approval_history = hist,
                         !.final_status = "Approved",
                         !.current_approver_role = "Final Approval",
                         !.current_approval_stage = next_stage_index]

\* the Approve button moving two stages ahead
ApproveRequest_SkipStage(req, role, name) ==
    LET hist == Append(req.approval_history, HistoryEntry(role, name, "Approved"))
        next_stage_index == req.current_approval_stage + 2
    IN  IF next_stage_index < Len(APPROVAL_CHAIN)
        THEN [req EXCEPT !.approval_history = hist,
                         !.current_approver_role = StageAt(next_stage_index).role_name,
                         !.current_approval_stage = next_stage_index]
        ELSE [req EXCEPT !.approval_history = hist,
                         !.final_status = "Approved",
                         !.current_approver_role = "Final Approval"]

\* the Approve button: append to the history, then move to the next stage or finalize
ApproveRequest(req, role, name) ==
    LET hist == Append(req.approval_history, HistoryEntry(role, name, "Approved"))
        next_stage_index == req.current_approval_stage + 1
    IN  IF next_stage_index < Len(APPROVAL_CHAIN)
        THEN [req EXCEPT !.approval_history = hist,
                         !.current_approver_role = StageAt(next_stage_index).role_name,
                         !.current_approval_stage = next_stage_index]
        ELSE [req EXCEPT !.approval_history = hist,
                         !.final_status = "Approved",
                         !.current_approver_role = "Final Approval"]

\* the Reject button without the append to the history
RejectRequest_NoEntry(req, role, name) ==
    [req EXCEPT !.final_status = "Rejected",
                !.current_approver_role = "Rejected"]

\* the Reject button without the assignment to final_status
RejectRequest_StaysPending(req, role, name) ==
    [req EXCEPT !.approval_history = Append(req.approval_history, HistoryEntry(role, name, "Rejected"))]

\* the Reject button: append to the history and finalize as Rejected
RejectRequest(req, role, name) ==
    [req EXCEPT !.approval_history = Append(req.approval_history, HistoryEntry(role, name, "Rejected")),
                !.final_status = "Rejected",
                !.current_approver_role = "Rejected"]

\* the button handler recomputing the balance of the selected request as well
DecidedList_ResetsBalance(reqs, profile, rid, b) ==
    LET role == current_approver_role_in_chain(profile)
        i == SelectedIndex(reqs, role, rid)
    IN  [reqs EXCEPT ![i] = [(IF b = "Approve"
                              THEN ApproveRequest(reqs[i], role, profile.name)
                              ELSE RejectRequest(reqs[i], role, profile.name))
                                 EXCEPT !.budget_balance = reqs[i].budgeted_amount
                                                              - reqs[i].net_amount_payable]]

\* the loaded list after the button handler mutated the selected request in place
DecidedList(reqs, profile, rid, b) ==
    LET role == current_approver_role_in_chain(profile)
        i == SelectedIndex(reqs, role, rid)
    IN  [reqs EXCEPT ![i] = IF b = "Approve"
                            THEN ApproveRequest(reqs[i], role, profile.name)
                            ELSE RejectRequest(reqs[i], role, profile.name)]

\* what an approvals page run displays when it ends without reaching a button
DenialMessage(profile, reqs, rid) ==
    LET role == current_approver_role_in_chain(profile)
    IN  IF ~(profile.role = "admin" \/ is_approver(profile)) THEN "access_denied"
        ELSE IF role = None THEN "not_configured"
        ELSE IF pending_for_this_approver(reqs, role) = << >> THEN "no_pending"
        ELSE IF SelectedIndex(reqs, role, rid) = 0 THEN "not_selected"
        ELSE "none"

(* ---------------------------------------------------------------------- *)
(* Submission                                                              *)
(* ---------------------------------------------------------------------- *)
\* the name of the first user of the list, whatever the department and grade level
get_approver_name_by_criteria_AnyUser(directory, department, grade_level) ==
    directory[UserOrder[1]].name

\* name of the first user of the list with the department and grade level, or None
get_approver_name_by_criteria(directory, department, grade_level) ==
    LET hits == { i \in 1 .. Len(UserOrder) :
                    /\ UserOrder[i] \in DOMAIN directory
                    /\ directory[UserOrder[i]].department = department
                    /\ directory[UserOrder[i]].grade_level = grade_level }
    IN  IF hits = {} THEN None ELSE directory[UserOrder[Min(hits)]].name

\* the balance of the expense line with the amount floored at zero
budget_balance_of_Floored(budgeted_amount, total_amount) ==
    IF budgeted_amount >= total_amount THEN budgeted_amount - total_amount ELSE 0

\* budget_balance = budgeted_amount - total_amount
budget_balance_of(budgeted_amount, total_amount) ==
    budgeted_amount - total_amount

\* the record the submitted form makes for the logged-in user
new_request(rid, requester, f) ==
    LET total_amount == f.material_cost + f.labor_cost
        wht_amount == (total_amount * wht_percentage) \div 100
        net_amount_payable == total_amount - wht_amount
        budgeted_amount == IF f.expense_line \in DOMAIN EXPENSE_LINES_BUDGET
                           THEN EXPENSE_LINES_BUDGET[f.expense_line] ELSE 0
        budget_balance == budget_balance_of(budgeted_amount, total_amount)
    IN  [request_id |-> rid,
         requester_staff_id |-> requester.staff_id,
         requester_name |-> requester.name,
         requester_department |-> requester.department,
         expense_line |-> f.expense_line,
         budgeted_amount |-> budgeted_amount,
         material_cost |-> f.material_cost,
         labor_cost |-> f.labor_cost,
         total_amount |-> total_amount,
         wht_percentage |-> wht_percentage,
         wht_amount |-> wht_amount,
         net_amount_payable |-> net_amount_payable,
         budget_balance |-> budget_balance,
         vendor_name |-> f.vendor_name,
         vendor_account_name |-> f.vendor_account_name,
         vendor_account_no |-> f.vendor_account_no,
         vendor_bank |-> f.vendor_bank,
         current_approver_role |-> APPROVAL_CHAIN[1].role_name,
         current_approval_stage |-> 0,
         final_status |-> "Pending",
         approval_history |-> << >>]

(* ---------------------------------------------------------------------- *)
(* Initial state: setup_initial_data has written the files, nobody is      *)
(* logged in                                                               *)
(* ---------------------------------------------------------------------- *)
Init ==
    /\ requests_file = << >>
    /\ users_file = initial_users
    /\ uuids = 0
    /\ user_updates = 0
    /\ current_user = [s \in Sessions |-> NoUser]
    /\ pc = [s \in Sessions |-> "idle"]
    /\ opex_capex_requests = [s \in Sessions |-> << >>]
    /\ users = [s \in Sessions |-> NoUsers]
    /\ form = [s \in Sessions |-> NoForm]
    /\ request_to_review_id = [s \in Sessions |-> 0]
    /\ button = [s \in Sessions |-> "none"]
    /\ message = [s \in Sessions |-> "none"]

(* ---------------------------------------------------------------------- *)
(* Actions                                                                 *)
(* ---------------------------------------------------------------------- *)
\* main(): the Login button with a user the directory authenticates
Login(s, u) ==
    /\ pc[s] = "idle"
    /\ current_user[s] = NoUser
    /\ current_user' = [current_user EXCEPT ![s] = users_file[u]]
    /\ message' = [message EXCEPT ![s] = "none"]
    /\ UNCHANGED << requests_file, users_file, uuids, user_updates, pc, opex_capex_requests,
                    users, form, request_to_review_id, button >>

\* main(): the Logout button
Logout(s) ==
    /\ pc[s] = "idle"
    /\ current_user[s] # NoUser
    /\ current_user' = [current_user EXCEPT ![s] = NoUser]
    /\ message' = [message EXCEPT ![s] = "none"]
    /\ UNCHANGED << requests_file, users_file, uuids, user_updates, pc, opex_capex_requests,
                    users, form, request_to_review_id, button >>

\* request_opex_capex(): a run with the form submitted with values f loads the
\* requests file and the users file; max bounds the requisitions of the specification
SubmitLoad(s, max, f) ==
    /\ pc[s] = "idle"
    /\ current_user[s] # NoUser
    /\ uuids + Cardinality({t \in Sessions : pc[t] = "submit"}) < max
    /\ pc' = [pc EXCEPT ![s] = "submit"]
    /\ opex_capex_requests' = [opex_capex_requests EXCEPT ![s] = requests_file]
    /\ users' = [users EXCEPT ![s] = users_file]
    /\ form' = [form EXCEPT ![s] = f]
    /\ message' = [message EXCEPT ![s] = "none"]
    /\ UNCHANGED << requests_file, users_file, uuids, user_updates, current_user,
                    request_to_review_id, button >>

\* request_opex_capex(): the rest of that run, up to save_data and st.rerun, with
\* chain as the configured APPROVAL_CHAIN.  Indexing entry 0 of an empty chain
\* raises IndexError, which ends the run before anything is built or saved.
SubmitSaveOn(s, chain) ==
    /\ pc[s] = "submit"
    /\ IF chain = << >>
       THEN /\ message' = [message EXCEPT ![s] = "index_error"]
            /\ UNCHANGED << requests_file, uuids >>
       ELSE LET first_approver_name ==
                    get_approver_name_by_criteria(users[s], chain[1].department,
                                                  chain[1].grade_level)
            IN  IF first_approver_name = None
                THEN /\ message' = [message EXCEPT ![s] = "no_first_approver"]
                     /\ UNCHANGED << requests_file, uuids >>
                ELSE /\ requests_file' =
                            Append(opex_capex_requests[s],
                                   [new_request(uuids + 1, current_user[s], form[s])
                                        EXCEPT !.current_approver_role = chain[1].role_name])
                     /\ uuids' = uuids + 1
                     /\ message' = [message EXCEPT ![s] = "none"]
    /\ pc' = [pc EXCEPT ![s] = "idle"]
    /\ opex_capex_requests' = [opex_capex_requests EXCEPT ![s] = << >>]
    /\ users' = [users EXCEPT ![s] = NoUsers]
    /\ form' = [form EXCEPT ![s] = NoForm]
    /\ UNCHANGED << users_file, user_updates, current_user, request_to_review_id, button >>

\* request_opex_capex(): the rest of that run with the chain of the source
SubmitSave(s) == SubmitSaveOn(s, APPROVAL_CHAIN)

\* admin_manage_opex_capex_approvals(): a run that ends before a button handler
\* (page not routed, no role in the chain, nothing pending, request not selectable)
ApprovalsDenied(s, rid, b) ==
    /\ pc[s] = "idle"
    /\ current_user[s] # NoUser
    /\ DenialMessage(current_user[s], requests_file, rid) # "none"
    /\ message' = [message EXCEPT ![s] = DenialMessage(current_user[s], requests_file, rid)]
    /\ UNCHANGED << requests_file, users_file, uuids, user_updates, current_user, pc,
                    opex_capex_requests, users, form, request_to_review_id, button >>

\* admin_manage_opex_capex_approvals(): a run with Approve or Reject pressed loads
\* the requests file and finds the selected request pending for the user's role
ApprovalsLoad(s, rid, b) ==
    /\ pc[s] = "idle"
    /\ current_user[s] # NoUser
    /\ DenialMessage(current_user[s], requests_file, rid) = "none"
    /\ pc' = [pc EXCEPT ![s] = "approvals"]
    /\ opex_capex_requests' = [opex_capex_requests EXCEPT ![s] = requests_file]
    /\ request_to_review_id' = [request_to_review_id EXCEPT ![s] = rid]
    /\ button' = [button EXCEPT ![s] = b]
    /\ message' = [message EXCEPT ![s] = "none"]
    /\ UNCHANGED << requests_file, users_file, uuids, user_updates, current_user, users, form >>

\* admin_manage_opex_capex_approvals(): the button handler of that run: mutate the
\* selected request of the loaded list, save_data of the whole list, st.rerun
ApprovalsSave(s) ==
    /\ pc[s] = "approvals"
    /\ requests_file' = DecidedList(opex_capex_requests[s], current_user[s],
                                    request_to_review_id[s], button[s])
    /\ message' = [message EXCEPT ![s] = "none"]
    /\ pc' = [pc EXCEPT ![s] = "idle"]
    /\ opex_capex_requests' = [opex_capex_requests EXCEPT ![s] = << >>]
    /\ request_to_review_id' = [request_to_review_id EXCEPT ![s] = 0]
    /\ button' = [button EXCEPT ![s] = "none"]
    /\ UNCHANGED << users_file, uuids, user_updates, current_user, users, form >>

\* admin_manage_users(): the Update User button of the edit form, pressed by an
\* administrator: the page loads the users file, sets the department and grade
\* level of the selected user and saves the list
UpdateUser(s, u, position) ==
    /\ pc[s] = "idle"
    /\ current_user[s] # NoUser
    /\ current_user[s].role = "admin"
    /\ user_updates < MaxUserUpdates
    /\ users_file' = [users_file EXCEPT ![u].department = position.department,
                                        ![u].grade_level = position.grade_level]
    /\ user_updates' = user_updates + 1
    /\ message' = [message EXCEPT ![s] = "none"]
    /\ UNCHANGED << requests_file, uuids, current_user, pc, opex_capex_requests, users,
                    form, request_to_review_id, button >>

\* what load_data returns for a requests file whose write stopped partway: the
\* file is empty or json.load raises JSONDecodeError, and default_value is returned
TruncatedFile == << >>

\* request_opex_capex(): the rest of a run that found a first approver, when the
\* write of save_data fails after the file was opened for writing
SubmitSaveFails(s) ==
    /\ pc[s] = "submit"
    /\ get_approver_name_by_criteria(users[s], APPROVAL_CHAIN[1].department,
                                     APPROVAL_CHAIN[1].grade_level) # None
    /\ requests_file' = TruncatedFile
    /\ uuids' = uuids + 1
    /\ message' = [message EXCEPT ![s] = "write_failed"]
    /\ pc' = [pc EXCEPT ![s] = "idle"]
    /\ opex_capex_requests' = [opex_capex_requests EXCEPT ![s] = << >>]
    /\ users' = [users EXCEPT ![s] = NoUsers]
    /\ form' = [form EXCEPT ![s] = NoForm]
    /\ UNCHANGED << users_file, user_updates, current_user, request_to_review_id, button >>

\* admin_manage_opex_capex_approvals(): the button handler, when the write of
\* save_data fails after the file was opened for writing
ApprovalsSaveFails(s) ==
    /\ pc[s] = "approvals"
    /\ requests_file' = TruncatedFile
    /\ message' = [message EXCEPT ![s] = "write_failed"]
    /\ pc' = [pc EXCEPT ![s] = "idle"]
    /\ opex_capex_requests' = [opex_capex_requests EXCEPT ![s] = << >>]
    /\ request_to_review_id' = [request_to_review_id EXCEPT ![s] = 0]
    /\ button' = [button EXCEPT ![s] = "none"]
    /\ UNCHANGED << users_file, uuids, user_updates, current_user, users, form >>

\* the submission of the routine form by a routine requester
RoutineSubmit(s, max) ==
    /\ current_user[s].username \in RoutineRequesters
    /\ \E f \in RoutineForms : SubmitLoad(s, max, f)

\* the steps of the sessions other than the submission of a requisition
SessionStep ==
    \/ \E s \in Sessions, u \in Usernames : Login(s, u)
    \/ \E s \in Sessions : Logout(s)
    \/ \E s \in Sessions : SubmitSave(s)
    \/ \E s \in Sessions, rid \in RequestIds, b \in {"Approve", "Reject"} : ApprovalsDenied(s, rid, b)
    \/ \E s \in Sessions, rid \in RequestIds, b \in {"Approve", "Reject"} : ApprovalsLoad(s, rid, b)
    \/ \E s \in Sessions : ApprovalsSave(s)

\* one requisition, a fixed user directory
Next ==
    \/ SessionStep
    \/ \E s \in Sessions : RoutineSubmit(s, MaxRequests)

Spec == Init /\ [][Next]_vars

\* two requisitions side by side, a fixed user directory
NextPair ==
    \/ SessionStep
    \/ \E s \in Sessions : RoutineSubmit(s, MaxPairRequests)

SpecPair == Init /\ [][NextPair]_vars

\* one requisition, the administrator edits the user directory
NextUsers ==
    \/ SessionStep
    \/ \E s \in Sessions : RoutineSubmit(s, MaxRequests)
    \/ \E s \in Sessions, u \in Usernames, position \in EditedPositions : UpdateUser(s, u, position)

SpecUsers == Init /\ [][NextUsers]_vars

\* one requisition, a fixed user directory, every form, every user submits
NextForms ==
    \/ SessionStep
    \/ \E s \in Sessions, f \in Forms : SubmitLoad(s, MaxRequests, f)

SpecForms == Init /\ [][NextForms]_vars

\* one requisition, a fixed user directory, writes of the requests file may fail
NextFaults ==
    \/ SessionStep
    \/ \E s \in Sessions : RoutineSubmit(s, MaxRequests)
    \/ \E s \in Sessions : SubmitSaveFails(s)
    \/ \E s \in Sessions : ApprovalsSaveFails(s)

SpecFaults == Init /\ [][NextFaults]_vars

\* the users of the initial directory who stand at a chain entry
Approvers == { u \in Usernames : is_approver(initial_users[u]) }

\* Every run that has loaded its files goes on to its save (a script run is not
\* interrupted).  The users behave as the approvers of a working organisation:
\* a session that stays idle is ended, so that the sessions of the model are not
\* held for ever by the same users; every approver logs in again and again; and
\* a requisition that is again and again selectable by a logged-in approver gets
\* Approve or Reject pressed on it.
Fairness ==
    /\ \A s \in Sessions : WF_vars(SubmitSave(s)) /\ WF_vars(ApprovalsSave(s))
    /\ \A s \in Sessions : WF_vars(Logout(s))
    /\ \A u \in Approvers : SF_vars(\E s \in Sessions : Login(s, u))
    /\ \A rid \in RequestIds :
          SF_vars(\E s \in Sessions, b \in {"Approve", "Reject"} : ApprovalsLoad(s, rid, b))

\* one requisition, a fixed user directory, fair runs and approvers
SpecFair == Spec /\ Fairness

\* two requisitions side by side, a fixed user directory, fair runs and approvers
SpecPairFair == SpecPair /\ Fairness

\* one over-budget requisition, a fixed user directory
NextOverBudget ==
    \/ SessionStep
    \/ \E s \in Sessions, f \in OverBudgetForms :
          current_user[s].username \in RoutineRequesters /\ SubmitLoad(s, MaxRequests, f)

SpecOverBudget == Init /\ [][NextOverBudget]_vars

\* the APPROVAL_CHAIN of a deployment configured without any stage
EmptyChain == << >>

\* the requisition page of a deployment whose approval chain is empty
NextEmptyChain ==
    \/ \E s \in Sessions, u \in Usernames : Login(s, u)
    \/ \E s \in Sessions : Logout(s)
    \/ \E s \in Sessions, f \in Forms : SubmitLoad(s, MaxRequests, f)
    \/ \E s \in Sessions : SubmitSaveOn(s, EmptyChain)

SpecEmptyChain == Init /\ [][NextEmptyChain]_vars

\* the requisition page and the user management page alone: several
\* requisitions, every user submits, the administrator edits the user directory
NextSubmit ==
    \/ \E s \in Sessions, u \in Usernames : Login(s, u)
    \/ \E s \in Sessions : Logout(s)
    \/ \E s \in Sessions, f \in RoutineForms : SubmitLoad(s, MaxSubmitRequests, f)
    \/ \E s \in Sessions : SubmitSave(s)
    \/ \E s \in Sessions, u \in Usernames, position \in EditedPositions : UpdateUser(s, u, position)

SpecSubmit == Init /\ [][NextSubmit]_vars

(* ---------------------------------------------------------------------- *)
(* Vocabulary of the properties                                            *)
(* ---------------------------------------------------------------------- *)
N == Len(APPROVAL_CHAIN)

Has(reqs, rid) == \E i \in 1 .. Len(reqs) : reqs[i].request_id = rid

\* the requisition with the id in a list that has it
Rec(reqs, rid) == reqs[CHOOSE i \in 1 .. Len(reqs) : reqs[i].request_id = rid]

Last(seq) == seq[Len(seq)]

\* this step is the save of session s's Approve or Reject
DecisionSaved(s) == pc[s] = "approvals" /\ pc'[s] = "idle"

\* this step is the load of an approvals run of session s that reaches a button
DecisionStarted(s) == pc[s] = "idle" /\ pc'[s] = "approvals"

\* this step is the save of session s's Submit
SubmitSaved(s) == pc[s] = "submit" /\ pc'[s] = "idle"

\* the requisition as session s's running approvals page loaded it
Loaded(s) == Rec(opex_capex_requests[s], request_to_review_id[s])

\* the user stands at the chain entry of the stage
MatchesStage(profile, k) ==
    /\ k < N
    /\ profile.department = StageAt(k).department
    /\ profile.grade_level = StageAt(k).grade_level

(* ---------------------------------------------------------------------- *)
(* C1                                                                      *)
(* ---------------------------------------------------------------------- *)
ApprovedBelowLastStage(s) ==
    LET rid == request_to_review_id[s]
        old == Loaded(s)
        k   == old.current_approval_stage
    IN  (DecisionSaved(s) /\ button[s] = "Approve" /\ k + 1 < N) =>
            /\ old.final_status = "Pending"
            /\ MatchesStage(current_user[s], k)
            /\ Has(requests_file', rid)
            /\ LET new == Rec(requests_file', rid)
               IN  /\ new.current_approval_stage = k + 1
                   /\ new.final_status = "Pending"
                   /\ new.current_approver_role = StageAt(k + 1).role_name
                   /\ Len(new.approval_history) = Len(old.approval_history) + 1
                   /\ SubSeq(new.approval_history, 1, Len(old.approval_history)) = old.approval_history
                   /\ Last(new.approval_history).status = "Approved"

\* C1: an Approve by an authorized approver on a requisition that was Pending at
\* stage k, k+1 < N, when the page loaded it, persists that requisition with stage
\* k+1, final_status Pending, the role name of chain entry k+1 as current approver
\* role, and the loaded history plus exactly one entry, of status Approved.
Thm_C1 == [][\A s \in Sessions : ApprovedBelowLastStage(s)]_vars

\* a persisted requisition that an Approve moved from stage 0 to stage 1
Wit_C1 ==
    \E i \in 1 .. Len(requests_file) :
        /\ requests_file[i].current_approval_stage = 1
        /\ requests_file[i].final_status = "Pending"
        /\ requests_file[i].current_approver_role = "HR Manager"
        /\ Len(requests_file[i].approval_history) = 1
        /\ requests_file[i].approval_history[1].status = "Approved"

(* ---------------------------------------------------------------------- *)
(* C2                                                                      *)
(* ---------------------------------------------------------------------- *)
ApprovedAtLastStage(s) ==
    LET rid == request_to_review_id[s]
        old == Loaded(s)
    IN  (DecisionSaved(s) /\ button[s] = "Approve" /\ old.current_approval_stage + 1 = N) =>
            /\ Has(requests_file', rid)
            /\ LET new == Rec(requests_file', rid)
               IN  /\ new.final_status = "Approved"
                   /\ Len(new.approval_history) = Len(old.approval_history) + 1
                   /\ Last(new.approval_history).status = "Approved"

\* the persisted requisition went through the four approvals in chain order
FullyApproved(rid) ==
    /\ Has(requests_file, rid)
    /\ Rec(requests_file, rid).final_status = "Approved"
    /\ Len(Rec(requests_file, rid).approval_history) = N
    /\ \A i \in 1 .. N :
          /\ Rec(requests_file, rid).approval_history[i].status = "Approved"
          /\ Rec(requests_file, rid).approval_history[i].approver_role = APPROVAL_CHAIN[i].role_name

NoDecisionAfterFullApproval(s) ==
    DecisionSaved(s) => ~FullyApproved(request_to_review_id[s])

\* C2: an Approve at the last stage persists final_status Approved with one more
\* history entry of status Approved, and once the four approvals in chain order
\* have made the persisted requisition Approved, no further decision on it succeeds.
CE_C2 == [][\A s \in Sessions : ApprovedAtLastStage(s) /\ NoDecisionAfterFullApproval(s)]_vars

(* ---------------------------------------------------------------------- *)
(* C3                                                                      *)
(* ---------------------------------------------------------------------- *)
RejectedAtAnyStage(s) ==
    LET rid == request_to_review_id[s]
        old == Loaded(s)
    IN  (DecisionSaved(s) /\ button[s] = "Reject") =>
            /\ Has(requests_file', rid)
            /\ LET new == Rec(requests_file', rid)
               IN  /\ new.final_status = "Rejected"
                   /\ new.current_approval_stage = old.current_approval_stage
                   /\ Len(new.approval_history) = Len(old.approval_history) + 1
                   /\ Last(new.approval_history).status = "Rejected"

ChainRoles == { APPROVAL_CHAIN[i].role_name : i \in 1 .. N }

\* the requisition is in the pending list of some approver
InSomePendingList(reqs, rid) ==
    \E role \in ChainRoles :
        \E i \in 1 .. Len(reqs) : reqs[i].request_id = rid /\ IsPendingFor(reqs[i], role)

RejectedStaysOutOfPendingLists(rid) ==
    (Has(requests_file, rid) /\ Rec(requests_file, rid).final_status = "Rejected") =>
        ~InSomePendingList(requests_file', rid)

\* C3: a Reject at any stage persists final_status Rejected, one more history
\* entry of status Rejected and the stage unchanged, and from then on the
\* requisition is in no approver's pending list.
CE_C3 ==
    [][/\ \A s \in Sessions : RejectedAtAnyStage(s)
       /\ \A rid \in RequestIds : RejectedStaysOutOfPendingLists(rid)]_vars

(* ---------------------------------------------------------------------- *)
(* C4                                                                      *)
(* ---------------------------------------------------------------------- *)
Finalized(rid) ==
    /\ Has(requests_file, rid)
    /\ Rec(requests_file, rid).final_status \in {"Approved", "Rejected"}

\* C4: once the persisted final_status of a requisition is Approved or Rejected,
\* no Approve or Reject of any session changes any field of the persisted record.
CE_C4 ==
    [][\A s \in Sessions : \A rid \in RequestIds :
          (DecisionSaved(s) /\ Finalized(rid)) =>
              /\ Has(requests_file', rid)
              /\ Rec(requests_file', rid) = Rec(requests_file, rid)]_vars

(* ---------------------------------------------------------------------- *)
(* C5                                                                      *)
(* ---------------------------------------------------------------------- *)
\* the entry the user directory holds now for the user logged in to the session
DirectoryEntry(s) == users_file[current_user[s].username]

\* a run reaches the buttons only for a persisted Pending requisition at whose
\* stage the user stands
AuthorizedStart(s) ==
    DecisionStarted(s) =>
        LET rid == request_to_review_id'[s]
        IN  /\ Has(requests_file, rid)
            /\ Rec(requests_file, rid).final_status = "Pending"
            /\ MatchesStage(DirectoryEntry(s), Rec(requests_file, rid).current_approval_stage)

\* a decision is saved only by a user standing at the stage the requisition
\* had when the decision was made
AuthorizedSave(s) ==
    DecisionSaved(s) =>
        /\ Loaded(s).final_status = "Pending"
        /\ MatchesStage(DirectoryEntry(s), Loaded(s).current_approval_stage)

\* the requests file changes only in the save of a decision or of a submission
OnlySavesWrite ==
    requests_file' # requests_file =>
        \E s \in Sessions : DecisionSaved(s) \/ SubmitSaved(s)

\* C5: a user whose (department, grade_level) is not that of the chain entry at
\* the requisition's current stage never decides it: the approvals page reaches
\* its buttons only for a user standing at that stage, every saved decision is
\* by such a user, and a run that was denied writes nothing.
CE_C5 ==
    [][/\ \A s \in Sessions : AuthorizedStart(s) /\ AuthorizedSave(s)
       /\ OnlySavesWrite]_vars

(* ---------------------------------------------------------------------- *)
(* C6                                                                      *)
(* ---------------------------------------------------------------------- *)
\* C6: decisions on one requisition are applied one after the other: every saved
\* decision was made on the persisted state of the requisition as it is at the
\* save, so that no saved decision is lost and no superseded state is advanced.
CE_C6 ==
    [][\A s \in Sessions :
          (DecisionSaved(s) /\ Has(requests_file, request_to_review_id[s])) =>
              Loaded(s) = Rec(requests_file, request_to_review_id[s])]_vars

(* ---------------------------------------------------------------------- *)
(* C7                                                                      *)
(* ---------------------------------------------------------------------- *)
\* C7: in every persisted state no two approval_history entries of one
\* requisition have the same approver_role.
Thm_C7 ==
    \A i \in 1 .. Len(requests_file) :
        \A a, b \in 1 .. Len(requests_file[i].approval_history) :
            a # b => requests_file[i].approval_history[a].approver_role
                        # requests_file[i].approval_history[b].approver_role

\* a persisted requisition with several history entries while a session is about
\* to save a decision it made on an older state of that requisition
Wit_C7 ==
    \E s \in Sessions :
        /\ pc[s] = "approvals"
        /\ Has(requests_file, request_to_review_id[s])
        /\ Len(Rec(requests_file, request_to_review_id[s]).approval_history) >= 2
        /\ Loaded(s) # Rec(requests_file, request_to_review_id[s])

(* ---------------------------------------------------------------------- *)
(* C8                                                                      *)
(* ---------------------------------------------------------------------- *)
KeptAsPersisted(rid) ==
    Has(requests_file, rid) =>
        /\ Has(requests_file', rid)
        /\ Rec(requests_file', rid) = Rec(requests_file, rid)

\* C8: the save of an Approve or Reject of requisition X, and the save of a
\* Submit, leave every other persisted requisition as it is.
CE_C8 ==
    [][\A s \in Sessions :
          /\ DecisionSaved(s) =>
                \A rid \in RequestIds \ {request_to_review_id[s]} : KeptAsPersisted(rid)
          /\ SubmitSaved(s) =>
                \A rid \in RequestIds : KeptAsPersisted(rid)]_vars

(* ---------------------------------------------------------------------- *)
(* C9                                                                      *)
(* ---------------------------------------------------------------------- *)
HistLen(reqs, rid) == IF Has(reqs, rid) THEN Len(Rec(reqs, rid).approval_history) ELSE 0

\* a decision on the requisition is saved in this step
DecisionSavedOn(rid) ==
    \E s \in Sessions : DecisionSaved(s) /\ request_to_review_id[s] = rid

\* the entry a saved decision wrote carries the role of the stage it was made at
EntryRoleIsStageRole(s) ==
    DecisionSaved(s) =>
        /\ Has(requests_file', request_to_review_id[s])
        /\ Last(Rec(requests_file', request_to_review_id[s]).approval_history).approver_role
              = StageAt(Loaded(s).current_approval_stage).role_name

\* C9: the length of the persisted history equals the number of successful
\* decisions on the requisition, stated step by step (both are 0 before the
\* first submission): the length grows by one in the save of a decision on the
\* requisition and stays as it is in every other step; and each entry carries
\* the role of the stage at which its decision was made.
CE_C9 ==
    [][/\ \A rid \in RequestIds :
             HistLen(requests_file', rid)
                 = HistLen(requests_file, rid) + (IF DecisionSavedOn(rid) THEN 1 ELSE 0)
       /\ \A s \in Sessions : EntryRoleIsStageRole(s)]_vars

(* ---------------------------------------------------------------------- *)
(* C10                                                                     *)
(* ---------------------------------------------------------------------- *)
\* C10: over the saves of Approve actions the persisted current_approval_stage
\* of a requisition never decreases.
CE_C10 ==
    [][\A s \in Sessions :
          (DecisionSaved(s) /\ button[s] = "Approve") =>
              \A rid \in RequestIds :
                  (Has(requests_file, rid) /\ Has(requests_file', rid)) =>
                      Rec(requests_file', rid).current_approval_stage
                          >= Rec(requests_file, rid).current_approval_stage]_vars

(* ---------------------------------------------------------------------- *)
(* C11                                                                     *)
(* ---------------------------------------------------------------------- *)
\* the withholding tax is that of the labour cost alone
WhtOnLaborOnly(req) ==
    /\ req.wht_amount * 100 = req.labor_cost * req.wht_percentage
    /\ req.net_amount_payable = req.total_amount - req.wht_amount

\* the stored values of the requisition of 100000 of materials and 50000 of labour
StoredExample(req) ==
    (req.material_cost = 100000 /\ req.labor_cost = 50000 /\ req.wht_percentage = 5) =>
        /\ req.total_amount = 150000
        /\ req.wht_amount = 2500
        /\ req.net_amount_payable = 147500

\* C11: every persisted requisition has wht_amount = labor_cost * wht_percentage
\* (the material cost adds nothing to it) and net_amount_payable = total_amount -
\* wht_amount; for materials 100000, labour 50000 and 5% the stored values are
\* total 150000, wht 2500, net 147500.
CE_C11 ==
    \A i \in 1 .. Len(requests_file) :
        WhtOnLaborOnly(requests_file[i]) /\ StoredExample(requests_file[i])

(* ---------------------------------------------------------------------- *)
(* C12                                                                     *)
(* ---------------------------------------------------------------------- *)
\* C12: every persisted requisition has budget_balance = budgeted_amount -
\* net_amount_payable, budgeted_amount being the EXPENSE_LINES_BUDGET entry of
\* its expense line.
CE_C12 ==
    \A i \in 1 .. Len(requests_file) :
        /\ requests_file[i].expense_line \in DOMAIN EXPENSE_LINES_BUDGET
        /\ requests_file[i].budgeted_amount = EXPENSE_LINES_BUDGET[requests_file[i].expense_line]
        /\ requests_file[i].budget_balance
              = requests_file[i].budgeted_amount - requests_file[i].net_amount_payable

(* ---------------------------------------------------------------------- *)
(* C13                                                                     *)
(* ---------------------------------------------------------------------- *)
\* the requisition is persisted with final_status Pending
PersistedPending(rid) ==
    Has(requests_file, rid) /\ Rec(requests_file, rid).final_status = "Pending"

\* a run of the approvals page of the session with the requisition selected
\* reaches the Approve and Reject buttons
ReachesButtons(s, rid) ==
    DenialMessage(current_user[s], requests_file, rid) = "none"

\* C13: a user whose role is admin can approve or reject a Pending requisition at
\* any stage, whatever the user's department and grade level: for every session
\* of an admin and every persisted Pending requisition, the approvals page opened
\* on that requisition reaches its buttons.
CE_C13 ==
    \A s \in Sessions : \A rid \in RequestIds :
        (pc[s] = "idle" /\ current_user[s].role = "admin" /\ PersistedPending(rid)) =>
            ReachesButtons(s, rid)

(* ---------------------------------------------------------------------- *)
(* C14                                                                     *)
(* ---------------------------------------------------------------------- *)
\* the session's run reaches the buttons for the requisition in this step
DecisionStartedOn(s, rid) ==
    DecisionStarted(s) /\ request_to_review_id'[s] = rid

\* the directory entry of the session's user does not stand at the stage the
\* persisted requisition is at
DirectoryDeniesStage(s, rid) ==
    /\ current_user[s] # NoUser
    /\ Has(requests_file, rid)
    /\ ~MatchesStage(DirectoryEntry(s), Rec(requests_file, rid).current_approval_stage)

\* C14: the right to decide is taken from the department and grade level the
\* user directory holds at the time of the action: no run reaches the buttons
\* for a requisition at whose stage the directory entry of the user does not
\* stand, whenever the session logged in.
CE_C14 ==
    [][\A s \in Sessions : \A rid \in RequestIds :
          DirectoryDeniesStage(s, rid) => ~DecisionStartedOn(s, rid)]_vars

(* ---------------------------------------------------------------------- *)
(* C15                                                                     *)
(* ---------------------------------------------------------------------- *)
\* positions of the history entries of status Approved
ApprovedEntries(req) ==
    { i \in 1 .. Len(req.approval_history) : req.approval_history[i].status = "Approved" }

\* the first n entries are approvals by the roles of chain stages 0..n-1, in order
ApprovedInChainOrder(req, n) ==
    /\ n <= Len(req.approval_history)
    /\ n <= N
    /\ \A i \in 1 .. n :
          /\ req.approval_history[i].status = "Approved"
          /\ req.approval_history[i].approver_role = APPROVAL_CHAIN[i].role_name

PassedInChainOrder(req) ==
    IF req.final_status = "Approved"
    THEN /\ Len(req.approval_history) = N
         /\ ApprovedInChainOrder(req, N)
    ELSE /\ ApprovedInChainOrder(req, req.current_approval_stage)
         /\ ApprovedEntries(req) = 1 .. req.current_approval_stage

\* C15: stages are passed in chain order without skipping: every persisted
\* requisition at stage k that is not Approved has entries of status Approved
\* for exactly the roles of chain stages 0..k-1, in chain order and before any
\* other entry; every persisted requisition with final_status Approved has
\* exactly N entries, all Approved, by the chain roles in order.
Thm_C15 ==
    \A i \in 1 .. Len(requests_file) : PassedInChainOrder(requests_file[i])

\* a persisted requisition approved by the whole chain
Wit_C15 ==
    \E i \in 1 .. Len(requests_file) :
        /\ requests_file[i].final_status = "Approved"
        /\ requests_file[i].current_approval_stage = N - 1
        /\ Len(requests_file[i].approval_history) = N

(* ---------------------------------------------------------------------- *)
(* C16                                                                     *)
(* ---------------------------------------------------------------------- *)
\* this step is the save of a Submit of session s that succeeded
SubmitSucceeded(s) == SubmitSaved(s) /\ message'[s] = "none"

\* the record is as a submission by the user creates it
FreshFor(req, user) ==
    /\ req.final_status = "Pending"
    /\ req.current_approval_stage = 0
    /\ req.approval_history = << >>
    /\ req.current_approver_role = APPROVAL_CHAIN[1].role_name
    /\ req.requester_staff_id = user.staff_id
    /\ req.requester_name = user.name
    /\ req.requester_department = user.department

\* the store after the step is the store before it and one record more, the last
OneRecordAdded ==
    /\ Len(requests_file') = Len(requests_file) + 1
    /\ SubSeq(requests_file', 1, Len(requests_file)) = requests_file

\* the record the step wrote last is a fresh one of the user, under an id that
\* no record stored before the step and no other record stored after it has
NewRecordOf(user) ==
    /\ requests_file' # << >>
    /\ FreshFor(Last(requests_file'), user)
    /\ ~Has(requests_file, Last(requests_file').request_id)
    /\ \A i \in 1 .. Len(requests_file') - 1 :
          requests_file'[i].request_id # Last(requests_file').request_id

\* C16: every successful Submit adds exactly one new record to the store, with
\* final_status Pending, stage 0, an empty history, the role name of chain entry
\* 0 as current approver role, a request_id that no stored record has, and the
\* staff id, name and department of the submitting user as requester fields.
CE_C16 ==
    [][\A s \in Sessions :
          SubmitSucceeded(s) => (OneRecordAdded /\ NewRecordOf(current_user[s]))]_vars

(* ---------------------------------------------------------------------- *)
(* C17                                                                     *)
(* ---------------------------------------------------------------------- *)
\* no user of the directory stands at chain stage 0
NoStageZeroUser(directory) ==
    ~\E u \in DOMAIN directory :
        /\ directory[u].department = APPROVAL_CHAIN[1].department
        /\ directory[u].grade_level = APPROVAL_CHAIN[1].grade_level

\* this step is the load of a requisition page run with the form submitted
SubmitStarted(s) == pc[s] = "idle" /\ pc'[s] = "submit"

\* C17: a Submit made while no user of the directory has the department and
\* grade level of chain stage 0 fails with an error and leaves the persisted
\* store as it is: the run works on the directory as persisted when the form is
\* submitted, and a run whose directory has no stage-0 user shows the error and
\* writes nothing.
Thm_C17 ==
    [][\A s \in Sessions :
          /\ SubmitStarted(s) => users'[s] = users_file
          /\ (SubmitSaved(s) /\ NoStageZeroUser(users[s])) =>
                /\ requests_file' = requests_file
                /\ message'[s] = "no_first_approver"]_vars

\* a Submit has failed for want of a stage-0 user, the store holding a requisition
Wit_C17 ==
    \E s \in Sessions :
        /\ message[s] = "no_first_approver"
        /\ NoStageZeroUser(users_file)
        /\ Len(requests_file) = 1

(* ---------------------------------------------------------------------- *)
(* C18                                                                     *)
(* ---------------------------------------------------------------------- *)
\* a required field is empty, a cost is negative or the line has no budget
InvalidForm(f) ==
    \/ f.vendor_name = ""
    \/ f.vendor_account_name = ""
    \/ f.vendor_account_no = ""
    \/ f.vendor_bank = ""
    \/ f.material_cost < 0
    \/ f.labor_cost < 0
    \/ f.expense_line \notin DOMAIN EXPENSE_LINES_BUDGET

\* C18: a Submit whose form has an empty vendor name, vendor account name,
\* vendor account number or vendor bank, a negative cost, or an expense line
\* without budget entry fails with a validation error and adds no record.
CE_C18 ==
    [][\A s \in Sessions :
          (SubmitSaved(s) /\ InvalidForm(form[s])) =>
              /\ requests_file' = requests_file
              /\ message'[s] = "validation_error"]_vars

(* ---------------------------------------------------------------------- *)
(* C19                                                                     *)
(* ---------------------------------------------------------------------- *)
\* this step is a save of session s whose write failed partway
WriteFailed(s) ==
    /\ pc[s] \in {"submit", "approvals"}
    /\ pc'[s] = "idle"
    /\ message'[s] = "write_failed"

\* C19: when the write of the requests file fails partway in a Submit, Approve
\* or Reject, the persisted store reads back afterwards exactly as before the
\* operation.
CE_C19 ==
    [][\A s \in Sessions : WriteFailed(s) => requests_file' = requests_file]_vars

(* ---------------------------------------------------------------------- *)
(* C20                                                                     *)
(* ---------------------------------------------------------------------- *)
\* ids of the requests the pages list as pending for the user of the session
ListedPending(s) ==
    LET listed == pending_for_this_approver(requests_file,
                                            current_approver_role_in_chain(current_user[s]))
    IN  { listed[i].request_id : i \in 1 .. Len(listed) }

\* ids of the persisted Pending requisitions whose stage is a chain entry with
\* the department and grade level of the user
PendingAtStageOf(profile) ==
    { rid \in RequestIds :
        /\ PersistedPending(rid)
        /\ MatchesStage(profile, Rec(requests_file, rid).current_approval_stage) }

AllPending == { rid \in RequestIds : PersistedPending(rid) }

NonSuperuserList(s) ==
    (current_user[s] # NoUser /\ current_user[s].role # "admin") =>
        ListedPending(s) = PendingAtStageOf(current_user[s])

SuperuserList(s) ==
    current_user[s].role = "admin" => ListedPending(s) = AllPending

\* C20: the requests listed as pending for a user who is not an admin are exactly
\* the persisted Pending requisitions whose current stage is a chain entry with
\* the user's department and grade level; for an admin they are all persisted
\* Pending requisitions.
CE_C20 ==
    \A s \in Sessions : NonSuperuserList(s) /\ SuperuserList(s)

(* ---------------------------------------------------------------------- *)
(* C21                                                                     *)
(* ---------------------------------------------------------------------- *)
\* no user of the directory stands at the chain entry of the stage
NoStageUser(directory, k) ==
    ~\E u \in DOMAIN directory : MatchesStage(directory[u], k)

\* the requisition is persisted Pending at a stage after the first
PendingAfterFirstStage(rid) ==
    /\ PersistedPending(rid)
    /\ Rec(requests_file, rid).current_approval_stage > 0

\* this step is the save of a decision by a user whose role is admin
SuperuserDecided ==
    \E s \in Sessions : DecisionSaved(s) /\ current_user[s].role = "admin"

\* C21: a requisition Pending at a stage k > 0 at which no user of the directory
\* stands stays as it is, Pending at stage k, for as long as no such user
\* exists, unless a superuser decides it: no other user reaches the buttons for
\* it, and no step of another user advances, finalizes or otherwise changes it.
CE_C21 ==
    [][\A rid \in RequestIds :
          LET k == Rec(requests_file, rid).current_approval_stage
          IN  (PendingAfterFirstStage(rid) /\ NoStageUser(users_file, k)) =>
                  /\ \A s \in Sessions :
                        current_user[s].role # "admin" => ~DecisionStartedOn(s, rid)
                  /\ (NoStageUser(users_file', k) /\ ~SuperuserDecided) =>
                        /\ Has(requests_file', rid)
                        /\ Rec(requests_file', rid) = Rec(requests_file, rid)]_vars

(* ---------------------------------------------------------------------- *)
(* C22                                                                     *)
(* ---------------------------------------------------------------------- *)
\* the form is one that the claims call valid
ValidForm(f) == ~InvalidForm(f)

\* C22: with an empty approval chain a Submit of a valid form succeeds and stores
\* the requisition with final_status Approved and an empty approval_history.
CE_C22 ==
    [][\A s \in Sessions :
          (SubmitSaved(s) /\ ValidForm(form[s])) =>
              /\ Len(requests_file') = Len(requests_file) + 1
              /\ Last(requests_file').final_status = "Approved"
              /\ Last(requests_file').approval_history = << >>]_vars

(* ---------------------------------------------------------------------- *)
(* C23                                                                     *)
(* ---------------------------------------------------------------------- *)
\* the net amount payable of the record exceeds the budget of its line
OverBudget(req) == req.net_amount_payable > req.budgeted_amount

\* the record the form makes is over budget
OverBudgetSubmitted(s) == OverBudget(new_request(0, current_user[s], form[s]))

\* the directory the run loaded has a user at chain stage 0
StageZeroUserLoaded(s) == ~NoStageZeroUser(users[s])

\* the Submit of an over-budget form succeeds with a negative balance, Pending at stage 0
OverBudgetAccepted(s) ==
    (SubmitSaved(s) /\ OverBudgetSubmitted(s) /\ StageZeroUserLoaded(s)) =>
        /\ message'[s] = "none"
        /\ requests_file' # << >>
        /\ Last(requests_file').request_id = uuids'
        /\ OverBudget(Last(requests_file'))
        /\ Last(requests_file').budget_balance < 0
        /\ Last(requests_file').final_status = "Pending"
        /\ Last(requests_file').current_approval_stage = 0

\* the approver of the stage of a persisted over-budget requisition reaches the buttons
OverBudgetDecidable(s, rid) ==
    (/\ pc[s] = "idle"
     /\ PersistedPending(rid)
     /\ OverBudget(Rec(requests_file, rid))
     /\ MatchesStage(current_user[s], Rec(requests_file, rid).current_approval_stage)) =>
        ReachesButtons(s, rid)

\* C23: a Submit whose net amount payable exceeds the budgeted amount of its
\* expense line is not blocked: it succeeds and stores a negative
\* budget_balance, the requisition is Pending at stage 0, and at every stage
\* the approver of the stage gets to decide it as any other requisition.
Thm_C23 ==
    [][\A s \in Sessions :
          /\ OverBudgetAccepted(s)
          /\ \A rid \in RequestIds : OverBudgetDecidable(s, rid)]_vars

\* an over-budget requisition approved by the whole chain
Wit_C23 ==
    \E i \in 1 .. Len(requests_file) :
        /\ OverBudget(requests_file[i])
        /\ requests_file[i].budget_balance < 0
        /\ requests_file[i].final_status = "Approved"
        /\ Len(requests_file[i].approval_history) = N

(* ---------------------------------------------------------------------- *)
(* C24                                                                     *)
(* ---------------------------------------------------------------------- *)
\* the fields of a requisition that are not workflow fields
SubmissionFields(req) ==
    << req.request_id, req.requester_staff_id, req.requester_name, req.requester_department,
       req.expense_line, req.budgeted_amount, req.material_cost, req.labor_cost,
       req.total_amount, req.wht_percentage, req.wht_amount, req.net_amount_payable,
       req.budget_balance, req.vendor_name, req.vendor_account_name,
       req.vendor_account_no, req.vendor_bank >>

\* the save of a decision writes its requisition with the submission fields it loaded
DecisionKeepsSubmissionFields(s) ==
    DecisionSaved(s) =>
        /\ Has(requests_file', request_to_review_id[s])
        /\ SubmissionFields(Rec(requests_file', request_to_review_id[s]))
              = SubmissionFields(Loaded(s))

\* no step changes the submission fields of a persisted requisition
SubmissionFieldsKept(rid) ==
    (Has(requests_file, rid) /\ Has(requests_file', rid)) =>
        SubmissionFields(Rec(requests_file', rid)) = SubmissionFields(Rec(requests_file, rid))

\* C24: an Approve or Reject changes only the workflow fields of its requisition:
\* the request id, the requester fields, the cost, WHT, net payable,
\* budgeted_amount and budget_balance fields and the vendor fields of a persisted
\* requisition keep the values stored at submission in every later state.
Thm_C24 ==
    [][/\ \A s \in Sessions : DecisionKeepsSubmissionFields(s)
       /\ \A rid \in RequestIds : SubmissionFieldsKept(rid)]_vars

\* a persisted requisition, decided by two approvers, with the fields of its submission
Wit_C24 ==
    \E i \in 1 .. Len(requests_file) :
        /\ Len(requests_file[i].approval_history) = 2
        /\ requests_file[i].final_status = "Rejected"
        /\ SubmissionFields(requests_file[i])
              = SubmissionFields(new_request(requests_file[i].request_id,
                                             initial_users["ada_ama"], RoutineForm))

(* ---------------------------------------------------------------------- *)
(* C25                                                                     *)
(* ---------------------------------------------------------------------- *)
\* C25: a requisition that is in the persisted store is in it in every later
\* state: no save of a Submit, Approve or Reject of any session removes it.
CE_C25 ==
    [][\A rid \in RequestIds : Has(requests_file, rid) => Has(requests_file', rid)]_vars

(* ---------------------------------------------------------------------- *)
(* C26                                                                     *)
(* ---------------------------------------------------------------------- *)
RoutingInStep(req) ==
    /\ req.final_status = "Pending" =>
          /\ req.current_approval_stage < N
          /\ req.current_approver_role = StageAt(req.current_approval_stage).role_name
    /\ req.final_status = "Approved" => req.current_approver_role = "Final Approval"
    /\ req.final_status = "Rejected" => req.current_approver_role = "Rejected"
    /\ req.final_status \in {"Approved", "Rejected"} =>
          \A role \in ChainRoles : ~IsPendingFor(req, role)

\* C26: in every persisted state a Pending requisition has the role name of
\* APPROVAL_CHAIN[current_approval_stage] as current_approver_role, an Approved
\* one 'Final Approval' and a Rejected one 'Rejected', so that a finalized
\* record passes no approver's pending filter.
Thm_C26 ==
    \A i \in 1 .. Len(requests_file) : RoutingInStep(requests_file[i])

\* a session is about to save a decision on a requisition that another
\* session's decision has finalized meanwhile
Wit_C26 ==
    \E s \in Sessions :
        /\ pc[s] = "approvals"
        /\ Has(requests_file, request_to_review_id[s])
        /\ Rec(requests_file, request_to_review_id[s]).current_approver_role = "Rejected"

(* ---------------------------------------------------------------------- *)
(* C27                                                                     *)
(* ---------------------------------------------------------------------- *)
StageIsChainIndex(req) ==
    /\ 0 <= req.current_approval_stage
    /\ req.current_approval_stage <= N - 1
    /\ req.final_status = "Approved" => req.current_approval_stage = N - 1

\* C27: in every persisted state the current_approval_stage of every requisition
\* is a chain index between 0 and N-1; the final approval leaves it at N-1.
Thm_C27 ==
    \A i \in 1 .. Len(requests_file) : StageIsChainIndex(requests_file[i])

\* a persisted requisition after the final approval
Wit_C27 ==
    \E i \in 1 .. Len(requests_file) :
        /\ requests_file[i].current_approver_role = "Final Approval"
        /\ requests_file[i].current_approval_stage = N - 1

(* ---------------------------------------------------------------------- *)
(* C28                                                                     *)
(* ---------------------------------------------------------------------- *)
HistoryLengthAtPosition(req) ==
    /\ req.final_status = "Pending" => Len(req.approval_history) = req.current_approval_stage
    /\ req.final_status = "Rejected" => Len(req.approval_history) = req.current_approval_stage + 1
    /\ req.final_status = "Approved" => Len(req.approval_history) = N

\* C28: in every persisted state the history of a Pending requisition has
\* current_approval_stage entries, that of a Rejected one
\* current_approval_stage + 1 and that of an Approved one N.
Thm_C28 ==
    \A i \in 1 .. Len(requests_file) : HistoryLengthAtPosition(requests_file[i])

\* a persisted requisition rejected at the last stage
Wit_C28 ==
    \E i \in 1 .. Len(requests_file) :
        /\ requests_file[i].final_status = "Rejected"
        /\ requests_file[i].current_approval_stage = N - 1
        /\ Len(requests_file[i].approval_history) = N

(* ---------------------------------------------------------------------- *)
(* C29                                                                     *)
(* ---------------------------------------------------------------------- *)
RejectedIffLastEntryRejected(req) ==
    /\ req.final_status = "Rejected" <=>
          (req.approval_history # << >> /\ Last(req.approval_history).status = "Rejected")
    /\ \A i \in 1 .. Len(req.approval_history) - 1 :
          req.approval_history[i].status # "Rejected"

\* C29: in every persisted state a requisition has final_status Rejected exactly
\* when the last entry of its history has status Rejected, and no entry before
\* the last has status Rejected.
Thm_C29 ==
    \A i \in 1 .. Len(requests_file) : RejectedIffLastEntryRejected(requests_file[i])

\* a requisition rejected by the HR Manager after the Admin Manager's approval
Wit_C29 ==
    \E i \in 1 .. Len(requests_file) :
        /\ Len(requests_file[i].approval_history) = 2
        /\ requests_file[i].approval_history[1].status = "Approved"
        /\ requests_file[i].approval_history[2].status = "Rejected"
        /\ requests_file[i].approval_history[2].approver_role = "HR Manager"

(* ---------------------------------------------------------------------- *)
(* C30                                                                     *)
(* ---------------------------------------------------------------------- *)
\* every chain stage has a user of the directory standing at it
EveryStageStaffed == \A k \in 0 .. N - 1 : ~NoStageUser(users_file, k)

\* C30: with every chain stage staffed and fair approvers, every submitted
\* requisition eventually has final_status Approved or Rejected.
CE_C30 ==
    \A rid \in RequestIds :
        (Has(requests_file, rid) /\ EveryStageStaffed) ~> Finalized(rid)

====
